---- MODULE Spec2Model ----
(***************************************************************************)
(* Model of the document/cursor engine of matheditor (src/src/main.rs):    *)
(* the InputValues / InputValue term tree, the recursive ValueCursor and   *)
(* the ProgramState editing operations.                                    *)
(*                                                                         *)
(* Representation.  A Vec is a TLA+ sequence, so the element the code      *)
(* calls self.0[i] is self[i + 1] here; cursor indices keep the code's     *)
(* 0-based values.  Option<(CursorFollow, Box<ValueCursor>)> is <<>> for   *)
(* None and <<direction, follow>> for Some.  A Rust panic (index out of    *)
(* range, Vec::insert / remove / split_off out of range, unreachable!(),   *)
(* integer underflow) aborts the process: operators report it in a         *)
(* `panic` field and the state machine stops once `panicked` is set.       *)
(***************************************************************************)
EXTENDS Integers, Sequences, FiniteSets, TLC

(* lines, cursor: the fields of ProgramState.  panicked: the process has   *)
(* aborted.  last, last_len, last_cursor: the operation that produced the  *)
(* state, the number of lines and the cursor it started from (history,     *)
(* read by the properties only).  layout: the inputs and the result of the *)
(* layout functions in the specifications that exercise them.              *)
VARIABLES lines, cursor, panicked, last, last_len, last_cursor, layout

vars == <<lines, cursor, panicked, last, last_len, last_cursor, layout>>

(* Bounds of the exploration *)
MaxValues == 3
MaxLines == 2
Texts == {"1", "2"}

(***************************************************************************)
(* Data                                                                    *)
(***************************************************************************)
Value(text) == [kind |-> "Value", text |-> text, top |-> <<>>, bottom |-> <<>>]

Fraction(top, bottom) == [kind |-> "Fraction", text |-> "", top |-> top, bottom |-> bottom]

None == <<>>

Some(direction, follow) == <<direction, follow>>

ValueCursor(index, follow) == [index |-> index, follow |-> follow]

ValueCursor_default == ValueCursor(0, None)

opposite(direction) == IF direction = "Top" THEN "Bottom" ELSE "Top"

Branch(value, direction) == IF direction = "Top" THEN value.top ELSE value.bottom

SetBranch(value, direction, seq) ==
    IF direction = "Top" THEN [value EXCEPT !.top = seq] ELSE [value EXCEPT !.bottom = seq]

(* Vec::insert(index, v), Vec::remove(index) with 0-based index *)
VecInsert(seq, index, v) == SubSeq(seq, 1, index) \o <<v>> \o SubSeq(seq, index + 1, Len(seq))

VecRemove(seq, index) == SubSeq(seq, 1, index) \o SubSeq(seq, index + 2, Len(seq))

(* self.0[index] is a valid access *)
InRange(seq, index) == index >= 0 /\ index < Len(seq)

(***************************************************************************)
(* define_traverse!: walk down the follow chain to the innermost level.    *)
(* traverse returns the sequence and cursor that `finish` receives;        *)
(* traverse_mut writes a new innermost sequence back in place;             *)
(* traverse_cursor writes a new innermost cursor back (the &mut cursor).   *)
(***************************************************************************)
RECURSIVE traverse(_, _)
traverse(self, c) ==
    IF c.follow # None
    THEN IF ~InRange(self, c.index - 1)
         THEN [panic |-> TRUE, this |-> self, cursor |-> c]
         ELSE IF self[c.index].kind = "Value"
              THEN [panic |-> TRUE, this |-> self, cursor |-> c]
              ELSE traverse(Branch(self[c.index], c.follow[1]), c.follow[2])
    ELSE [panic |-> FALSE, this |-> self, cursor |-> c]

RECURSIVE traverse_mut(_, _, _)
traverse_mut(self, c, new) ==
    IF c.follow # None
    THEN [self EXCEPT ![c.index] =
            SetBranch(@, c.follow[1], traverse_mut(Branch(@, c.follow[1]), c.follow[2], new))]
    ELSE new

RECURSIVE traverse_cursor(_, _)
traverse_cursor(c, new) ==
    IF c.follow # None
    THEN [c EXCEPT !.follow = Some(c.follow[1], traverse_cursor(c.follow[2], new))]
    ELSE new

(***************************************************************************)
(* InputValues                                                             *)
(***************************************************************************)
InputValues_add_text(self, c, text) ==
    LET t == traverse(self, c) IN
    IF t.panic \/ t.cursor.index > Len(t.this)
    THEN [panic |-> TRUE, self |-> self]
    ELSE [panic |-> FALSE,
          self |-> traverse_mut(self, c, VecInsert(t.this, t.cursor.index, Value(text)))]

(* InputValues::add_fraction taking the element at cursor.index instead of *)
(* cursor.index - 1 (line 355)                                             *)
InputValues_add_fraction_at_index(self, c) ==
    LET t == traverse(self, c) IN
    IF t.panic \/ ~InRange(t.this, t.cursor.index)
    THEN [panic |-> TRUE, self |-> self]
    ELSE [panic |-> FALSE,
          self |-> traverse_mut(self, c,
              [t.this EXCEPT ![t.cursor.index + 1] = Fraction(<<@>>, <<>>)])]

InputValues_add_fraction(self, c) ==
    LET t == traverse(self, c) IN
    IF t.panic
    THEN [panic |-> TRUE, self |-> self]
    ELSE IF t.cursor.index >= 1
         THEN LET index == t.cursor.index - 1 IN
              IF ~InRange(t.this, index)
              THEN [panic |-> TRUE, self |-> self]
              ELSE [panic |-> FALSE,
                    self |-> traverse_mut(self, c,
                        [t.this EXCEPT ![index + 1] = Fraction(<<@>>, <<>>)])]
         ELSE [panic |-> FALSE, self |-> self]

(* replace inserting the values front to back at the same position, which *)
(* leaves them in reverse order (line 368 without rev)                     *)
RECURSIVE Reversed(_)
Reversed(seq) == IF seq = <<>> THEN <<>> ELSE Reversed(Tail(seq)) \o <<Head(seq)>>

replace_unreversed(self, index, values) ==
    SubSeq(self, 1, index) \o Reversed(values) \o SubSeq(self, index + 2, Len(self))

replace(self, index, values) ==
    SubSeq(self, 1, index) \o values \o SubSeq(self, index + 2, Len(self))

RECURSIVE InputValues_remove_single(_, _)
InputValues_remove_single(self, c) ==
    IF c.follow # None
    THEN LET index == c.index - 1 IN
         IF ~InRange(self, index) \/ self[index + 1].kind = "Value"
         THEN [panic |-> TRUE, self |-> self, cursor |-> c, ret |-> FALSE]
         ELSE LET direction == c.follow[1]
                  this == self[index + 1]
                  r == InputValues_remove_single(Branch(this, direction), c.follow[2])
              IN  IF r.panic
                  THEN [panic |-> TRUE, self |-> self, cursor |-> c, ret |-> FALSE]
                  ELSE IF r.ret
                       THEN [panic |-> FALSE,
                             self |-> replace(self, index, Branch(this, opposite(direction))),
                             cursor |-> [c EXCEPT !.follow = None],
                             ret |-> FALSE]
                       ELSE [panic |-> FALSE,
                             self |-> [self EXCEPT ![index + 1] = SetBranch(this, direction, r.self)],
                             cursor |-> [c EXCEPT !.follow = Some(direction, r.cursor)],
                             ret |-> FALSE]
    ELSE IF c.index >= 1
         THEN LET index == c.index - 1 IN
              IF ~InRange(self, index)
              THEN [panic |-> TRUE, self |-> self, cursor |-> c, ret |-> FALSE]
              ELSE [panic |-> FALSE, self |-> VecRemove(self, index),
                    cursor |-> [c EXCEPT !.index = index], ret |-> FALSE]
         ELSE [panic |-> FALSE, self |-> self, cursor |-> c, ret |-> TRUE]

RECURSIVE move_right_inner(_, _)
move_right_inner(self, c) ==
    IF c.follow # None
    THEN IF ~InRange(self, c.index - 1) \/ self[c.index].kind = "Value"
         THEN [panic |-> TRUE, cursor |-> c, ret |-> FALSE]
         ELSE LET direction == c.follow[1]
                  r == move_right_inner(Branch(self[c.index], direction), c.follow[2])
              IN  IF r.panic
                  THEN [panic |-> TRUE, cursor |-> c, ret |-> FALSE]
                  ELSE IF r.ret
                       THEN [panic |-> FALSE, cursor |-> [c EXCEPT !.follow = None], ret |-> TRUE]
                       ELSE [panic |-> FALSE,
                             cursor |-> [c EXCEPT !.follow = Some(direction, r.cursor)],
                             ret |-> FALSE]
    ELSE IF c.index < Len(self)
         THEN [panic |-> FALSE, cursor |-> [c EXCEPT !.index = c.index + 1], ret |-> FALSE]
         ELSE [panic |-> FALSE, cursor |-> c, ret |-> TRUE]

(* The recursion stays on the same `self` (line 470) and never reads it. *)
RECURSIVE move_left_inner(_, _)
move_left_inner(self, c) ==
    IF c.follow # None
    THEN LET r == move_left_inner(self, c.follow[2]) IN
         IF r.ret
         THEN LET cleared == [c EXCEPT !.follow = None] IN
              [cursor |-> move_left_inner(self, cleared).cursor, ret |-> FALSE]
         ELSE [cursor |-> [c EXCEPT !.follow = Some(c.follow[1], r.cursor)], ret |-> FALSE]
    ELSE IF c.index >= 1
         THEN [cursor |-> [c EXCEPT !.index = c.index - 1], ret |-> FALSE]
         ELSE [cursor |-> c, ret |-> TRUE]

(* step_in looking at the element at cursor.index instead of              *)
(* cursor.index - 1 (line 493)                                             *)
step_in_at_index(self, c, right) ==
    LET t == traverse(self, c) IN
    IF t.panic \/ ~InRange(t.this, t.cursor.index)
    THEN [panic |-> TRUE, cursor |-> c, ret |-> FALSE]
    ELSE IF t.this[t.cursor.index + 1].kind = "Fraction"
         THEN LET new_index == IF right THEN Len(t.this[t.cursor.index + 1].top) ELSE 0
                  new_cursor == ValueCursor(new_index, None)
              IN  [panic |-> FALSE,
                   cursor |-> traverse_cursor(c,
                       [t.cursor EXCEPT !.follow = Some("Top", new_cursor)]),
                   ret |-> TRUE]
         ELSE [panic |-> FALSE, cursor |-> c, ret |-> FALSE]

step_in(self, c, right) ==
    LET t == traverse(self, c) IN
    IF t.panic
    THEN [panic |-> TRUE, cursor |-> c, ret |-> FALSE]
    ELSE IF t.cursor.index >= 1
         THEN LET index == t.cursor.index - 1 IN
              IF ~InRange(t.this, index)
              THEN [panic |-> TRUE, cursor |-> c, ret |-> FALSE]
              ELSE IF t.this[index + 1].kind = "Fraction"
                   THEN LET new_index == IF right THEN Len(t.this[index + 1].top) ELSE 0
                            new_cursor == ValueCursor(new_index, None)
                        IN  [panic |-> FALSE,
                             cursor |-> traverse_cursor(c,
                                 [t.cursor EXCEPT !.follow = Some("Top", new_cursor)]),
                             ret |-> TRUE]
                   ELSE [panic |-> FALSE, cursor |-> c, ret |-> FALSE]
         ELSE [panic |-> FALSE, cursor |-> c, ret |-> FALSE]

(* move_left taking the flat step without trying step_in first *)
InputValues_move_left_flat(self, c) ==
    [panic |-> FALSE, cursor |-> move_left_inner(self, c).cursor]

InputValues_move_left(self, c) ==
    LET s == step_in(self, c, TRUE) IN
    IF s.panic
    THEN [panic |-> TRUE, cursor |-> c]
    ELSE IF ~s.ret
         THEN [panic |-> FALSE, cursor |-> move_left_inner(self, c).cursor]
         ELSE [panic |-> FALSE, cursor |-> s.cursor]

InputValues_move_right(self, c) ==
    LET r == move_right_inner(self, c) IN
    IF r.panic
    THEN [panic |-> TRUE, cursor |-> c]
    ELSE IF ~r.ret
         THEN LET s == step_in(self, r.cursor, FALSE) IN
              [panic |-> s.panic, cursor |-> s.cursor]
         ELSE [panic |-> FALSE, cursor |-> r.cursor]

(* diff / 2 rounding toward minus infinity instead of toward zero *)
HalfFloor(diff) == diff \div 2

(* diff / 2 of i32: truncation toward zero *)
HalfTrunc(diff) == IF diff >= 0 THEN diff \div 2 ELSE -((-diff) \div 2)

Clamp(v, lo, hi) == IF v < lo THEN lo ELSE IF v > hi THEN hi ELSE v

RECURSIVE move_vertical(_, _, _)
move_vertical(self, c, which) ==
    IF c.follow # None
    THEN IF ~InRange(self, c.index - 1)
         THEN [panic |-> TRUE, cursor |-> c, ret |-> FALSE]
         ELSE LET this == self[c.index]
                  direction == c.follow[1]
                  follow == c.follow[2]
              IN  IF follow.follow = None
                  THEN IF direction = which
                       THEN IF this.kind = "Fraction"
                            THEN LET a == IF which = "Top" THEN Len(this.top) ELSE Len(this.bottom)
                                     b == IF which = "Top" THEN Len(this.bottom) ELSE Len(this.top)
                                     half_diff == HalfTrunc(a - b)
                                     index == Clamp(follow.index - half_diff, 0, b)
                                 IN  [panic |-> FALSE,
                                      cursor |-> [c EXCEPT !.follow =
                                          Some(opposite(which), [follow EXCEPT !.index = index])],
                                      ret |-> TRUE]
                            ELSE [panic |-> TRUE, cursor |-> c, ret |-> FALSE]
                       ELSE [panic |-> FALSE, cursor |-> c, ret |-> FALSE]
                  ELSE IF this.kind = "Value"
                       THEN [panic |-> TRUE, cursor |-> c, ret |-> FALSE]
                       ELSE LET r == move_vertical(Branch(this, direction), follow, "Top") IN
                            [panic |-> r.panic,
                             cursor |-> IF r.panic THEN c
                                        ELSE [c EXCEPT !.follow = Some(direction, r.cursor)],
                             ret |-> r.ret]
    ELSE [panic |-> FALSE, cursor |-> c, ret |-> FALSE]

InputValues_move_up(self, c) == move_vertical(self, c, "Bottom")

InputValues_move_down(self, c) == move_vertical(self, c, "Top")

(***************************************************************************)
(* ValueCursor                                                             *)
(***************************************************************************)
(* ValueCursor::add_fraction without the `index != 0` test of line 681 *)
RECURSIVE ValueCursor_add_fraction_unguarded(_)
ValueCursor_add_fraction_unguarded(c) ==
    IF c.follow # None
    THEN [c EXCEPT !.follow = Some(c.follow[1], ValueCursor_add_fraction_unguarded(c.follow[2]))]
    ELSE [c EXCEPT !.follow = Some("Bottom", ValueCursor_default)]

RECURSIVE ValueCursor_add_fraction(_)
ValueCursor_add_fraction(c) ==
    IF c.follow # None
    THEN [c EXCEPT !.follow = Some(c.follow[1], ValueCursor_add_fraction(c.follow[2]))]
    ELSE IF c.index # 0
         THEN [c EXCEPT !.follow = Some("Bottom", ValueCursor_default)]
         ELSE c

RECURSIVE added(_)
added(c) ==
    IF c.follow # None
    THEN [c EXCEPT !.follow = Some(c.follow[1], added(c.follow[2]))]
    ELSE [c EXCEPT !.index = c.index + 1]

(***************************************************************************)
(* ProgramState.  Every operation returns the lines and cursor it leaves   *)
(* behind and whether it panicked on the way.                              *)
(***************************************************************************)
Cursor(line, value) == [line |-> line, value |-> value]

Ok(ls, cur) == [panic |-> FALSE, lines |-> ls, cursor |-> cur]

Panic(ls, cur) == [panic |-> TRUE, lines |-> ls, cursor |-> cur]

ProgramState_new == Ok(<<<<>>>>, Cursor(0, ValueCursor_default))

ProgramState_new_line(ls, cur) ==
    IF cur.value.follow # None
    THEN Ok(ls, cur)
    ELSE IF ~InRange(ls, cur.line) \/ cur.value.index > Len(ls[cur.line + 1])
         THEN Panic(ls, cur)
         ELSE LET line == ls[cur.line + 1]
                  rest == SubSeq(line, cur.value.index + 1, Len(line))
                  kept == SubSeq(line, 1, cur.value.index)
                  new_line == cur.line + 1
              IN  Ok(VecInsert([ls EXCEPT ![cur.line + 1] = kept], new_line, rest),
                     Cursor(new_line, ValueCursor_default))

ProgramState_add_normal(ls, cur, text) ==
    IF ~InRange(ls, cur.line)
    THEN Panic(ls, cur)
    ELSE LET r == InputValues_add_text(ls[cur.line + 1], cur.value, text) IN
         IF r.panic
         THEN Panic(ls, cur)
         ELSE Ok([ls EXCEPT ![cur.line + 1] = r.self], [cur EXCEPT !.value = added(cur.value)])

ProgramState_add_fraction(ls, cur) ==
    IF ~InRange(ls, cur.line)
    THEN Panic(ls, cur)
    ELSE LET r == InputValues_add_fraction(ls[cur.line + 1], cur.value) IN
         IF r.panic
         THEN Panic(ls, cur)
         ELSE Ok([ls EXCEPT ![cur.line + 1] = r.self],
                 [cur EXCEPT !.value = ValueCursor_add_fraction(cur.value)])

(* ProgramState::add_text without the "/" arm of line 728 *)
ProgramState_add_text_unrouted(ls, cur, text) == ProgramState_add_normal(ls, cur, text)

ProgramState_add_text(ls, cur, text) ==
    IF text = "/" THEN ProgramState_add_fraction(ls, cur) ELSE ProgramState_add_normal(ls, cur, text)

(* ProgramState::remove_single without the `lines.len() == 1` return of   *)
(* lines 764-767                                                           *)
ProgramState_remove_single_any_len(ls, cur, checked) ==
    IF cur.value.follow = None /\ cur.value.index = 0
    THEN IF ~InRange(ls, cur.line)
         THEN Panic(ls, cur)
         ELSE LET previous == ls[cur.line + 1]
                  removed == VecRemove(ls, cur.line)
                  line == cur.line - 1
              IN  IF cur.line = 0
                  THEN IF checked
                       THEN Panic(removed, cur)
                       ELSE Panic(removed, [cur EXCEPT !.line = line])
                  ELSE Ok([removed EXCEPT ![line + 1] = @ \o previous],
                          Cursor(line, ValueCursor(Len(removed[line + 1]), None)))
    ELSE IF ~InRange(ls, cur.line)
         THEN Panic(ls, cur)
         ELSE LET r == InputValues_remove_single(ls[cur.line + 1], cur.value) IN
              IF r.panic
              THEN Panic(ls, cur)
              ELSE Ok([ls EXCEPT ![cur.line + 1] = r.self], [cur EXCEPT !.value = r.cursor])

(* `checked` is whether the build checks integer overflow.  At line 771 a  *)
(* checked build panics on 0 - 1; an unchecked one wraps cursor.line to    *)
(* usize::MAX (written -1 here) and panics at line 774 on lines[usize::MAX] *)
ProgramState_remove_single(ls, cur, checked) ==
    IF cur.value.follow = None /\ cur.value.index = 0
    THEN IF Len(ls) = 1
         THEN Ok(ls, cur)
         ELSE IF ~InRange(ls, cur.line)
              THEN Panic(ls, cur)
              ELSE LET previous == ls[cur.line + 1]
                       removed == VecRemove(ls, cur.line)
                       line == cur.line - 1
                   IN  IF cur.line = 0
                       THEN IF checked
                            THEN Panic(removed, cur)
                            ELSE Panic(removed, [cur EXCEPT !.line = line])
                       ELSE Ok([removed EXCEPT ![line + 1] = @ \o previous],
                               Cursor(line, ValueCursor(Len(removed[line + 1]), None)))
    ELSE IF ~InRange(ls, cur.line)
         THEN Panic(ls, cur)
         ELSE LET r == InputValues_remove_single(ls[cur.line + 1], cur.value) IN
              IF r.panic
              THEN Panic(ls, cur)
              ELSE Ok([ls EXCEPT ![cur.line + 1] = r.self], [cur EXCEPT !.value = r.cursor])

(* move_left that steps back by deleting, as the backspace key does *)
ProgramState_move_left_deleting(ls, cur) == ProgramState_remove_single(ls, cur, TRUE)

ProgramState_move_left(ls, cur) ==
    IF ~InRange(ls, cur.line)
    THEN Panic(ls, cur)
    ELSE LET r == InputValues_move_left(ls[cur.line + 1], cur.value) IN
         IF r.panic THEN Panic(ls, cur) ELSE Ok(ls, [cur EXCEPT !.value = r.cursor])

ProgramState_move_right(ls, cur) ==
    IF ~InRange(ls, cur.line)
    THEN Panic(ls, cur)
    ELSE LET r == InputValues_move_right(ls[cur.line + 1], cur.value) IN
         IF r.panic THEN Panic(ls, cur) ELSE Ok(ls, [cur EXCEPT !.value = r.cursor])

(* remove_next_single putting the next line in front of the current one *)
(* instead of extending the current line with it (line 792)             *)
ProgramState_remove_next_single_prepend(ls, cur, checked) ==
    IF ~InRange(ls, cur.line)
    THEN Panic(ls, cur)
    ELSE LET line_length == Len(ls[cur.line + 1]) IN
         IF cur.value.follow = None /\ cur.value.index = line_length
         THEN IF Len(ls) - 1 > cur.line
              THEN Ok([VecRemove(ls, cur.line + 1) EXCEPT ![cur.line + 1] = ls[cur.line + 2] \o @],
                      cur)
              ELSE Ok(ls, cur)
         ELSE LET m == ProgramState_move_right(ls, cur) IN
              IF m.panic THEN m ELSE ProgramState_remove_single(m.lines, m.cursor, checked)

ProgramState_remove_next_single(ls, cur, checked) ==
    IF ~InRange(ls, cur.line)
    THEN Panic(ls, cur)
    ELSE LET line_length == Len(ls[cur.line + 1]) IN
         IF cur.value.follow = None /\ cur.value.index = line_length
         THEN IF Len(ls) - 1 > cur.line
              THEN Ok([VecRemove(ls, cur.line + 1) EXCEPT ![cur.line + 1] = @ \o ls[cur.line + 2]],
                      cur)
              ELSE Ok(ls, cur)
         ELSE LET m == ProgramState_move_right(ls, cur) IN
              IF m.panic THEN m ELSE ProgramState_remove_single(m.lines, m.cursor, checked)

Min(a, b) == IF a < b THEN a ELSE b

truncate_index(ls, cur) ==
    [cur EXCEPT !.value.index = Min(cur.value.index, Len(ls[cur.line + 1]))]

ProgramState_move_up(ls, cur) ==
    IF ~InRange(ls, cur.line)
    THEN Panic(ls, cur)
    ELSE LET r == InputValues_move_up(ls[cur.line + 1], cur.value) IN
         IF r.panic
         THEN Panic(ls, cur)
         ELSE IF ~r.ret /\ r.cursor.follow = None /\ cur.line > 0
              THEN Ok(ls, truncate_index(ls, Cursor(cur.line - 1, r.cursor)))
              ELSE Ok(ls, [cur EXCEPT !.value = r.cursor])

ProgramState_move_down(ls, cur) ==
    IF ~InRange(ls, cur.line)
    THEN Panic(ls, cur)
    ELSE LET r == InputValues_move_down(ls[cur.line + 1], cur.value) IN
         IF r.panic
         THEN Panic(ls, cur)
         ELSE IF ~r.ret /\ r.cursor.follow = None /\ cur.line < Len(ls) - 1
              THEN Ok(ls, truncate_index(ls, Cursor(cur.line + 1, r.cursor)))
              ELSE Ok(ls, [cur EXCEPT !.value = r.cursor])

(***************************************************************************)
(* Size of a document, used to bound the exploration                       *)
(***************************************************************************)
RECURSIVE CountValues(_)
CountValues(seq) ==
    IF seq = <<>>
    THEN 0
    ELSE LET v == Head(seq) IN
         1 + (IF v.kind = "Fraction" THEN CountValues(v.top) + CountValues(v.bottom) ELSE 0)
           + CountValues(Tail(seq))

RECURSIVE CountLines(_)
CountLines(ls) == IF ls = <<>> THEN 0 ELSE CountValues(Head(ls)) + CountLines(Tail(ls))

(***************************************************************************)
(* Layout: RenderValue (lines 17-57), RenderRect (150-198) and             *)
(* RenderResult (200-256).  Coordinates are i32 and sizes u32 in the code; *)
(* here they are integers, and the explored values stay far from the ends  *)
(* of the 32-bit range.                                                    *)
(***************************************************************************)
FONT_SIZE == 20

RenderValue_Text(x, y, text) == [kind |-> "Text", x |-> x, y |-> y, text |-> text, width |-> 0]

RenderValue_Line(x, y, width) == [kind |-> "Line", x |-> x, y |-> y, text |-> "", width |-> width]

RenderValue_Cursor(x, y) == [kind |-> "Cursor", x |-> x, y |-> y, text |-> "", width |-> 0]

new_cursor(x, y) == RenderValue_Cursor(x, y - HalfTrunc(FONT_SIZE))

new_cursor_rect(rect) == new_cursor(rect.x + rect.width, rect.y + HalfTrunc(rect.height))

RenderValue_shift(v, shift_x, shift_y) == [v EXCEPT !.x = @ + shift_x, !.y = @ + shift_y]

RenderRect(x, y, width, height) == [x |-> x, y |-> y, width |-> width, height |-> height]

RenderRect_empty == RenderRect(0, 0, 0, 0)

end(self) == <<self.x + self.width, self.y + self.height>>

Max(a, b) == IF a > b THEN a ELSE b

RenderRect_combine(self, other) ==
    LET x == Min(self.x, other.x)
        y == Min(self.y, other.y)
        this_end == end(self)
        other_end == end(other)
        end_x == Max(this_end[1], other_end[1])
        end_y == Max(this_end[2], other_end[2])
    IN  RenderRect(x, y, end_x - x, end_y - y)

RenderResult(rect, render) == [rect |-> rect, render |-> render]

RenderResult_new(rect, render) == RenderResult(rect, <<render>>)

RenderResult_empty(rect) == RenderResult(rect, <<>>)

is_cursor(self) == Len(self.render) = 1 /\ self.render[1].kind = "Cursor"

(* combine taking the union of the rectangles whatever the other result is *)
RenderResult_combine_always(self, other) ==
    [rect |-> RenderRect_combine(self.rect, other.rect),
     render |-> self.render \o other.render]

RenderResult_combine(self, other) ==
    [rect |-> IF ~is_cursor(other) THEN RenderRect_combine(self.rect, other.rect) ELSE self.rect,
     render |-> self.render \o other.render]

RenderResult_shift(self, x, y) ==
    [rect |-> [self.rect EXCEPT !.x = @ + x, !.y = @ + y],
     render |-> [j \in 1..Len(self.render) |-> RenderValue_shift(self.render[j], x, y)]]

(* The measuring closure redraw_window hands to render (lines 917-937): a  *)
(* Text gets the size of its rendered glyphs, taken from the font; a Line  *)
(* is 2 high around y; a Cursor has no size.  The rectangles of Line and   *)
(* Cursor results are never read by the layout.                            *)
redraw_window_f(render, font) ==
    IF render.kind = "Text"
    THEN RenderResult_new(RenderRect(render.x, render.y, font.width, font.height), render)
    ELSE IF render.kind = "Line"
         THEN RenderResult_new(RenderRect(render.x, render.y - HalfTrunc(2), render.width, 2), render)
         ELSE RenderResult_new(RenderRect(render.x, render.y, 0, 0), render)

(* F applied to the value of v: the value is computed once, before F uses  *)
(* it, the way a Rust `let` binds it.                                      *)
Bind(v, F(_)) == CHOOSE r \in {F(e) : e \in {v}} : TRUE

(* The Fraction arm of InputValue::render once both branches are laid out  *)
(* at (x, y) (lines 113-144): the narrower branch is centered over the     *)
(* wider, the top moves up and the bottom down by half the larger height,  *)
(* and the bar is placed between them.                                     *)
Fraction_render(top0, bottom0, x, font) ==
    LET top_shift_x == IF top0.rect.width < bottom0.rect.width
                       THEN HalfTrunc(bottom0.rect.width - top0.rect.width)
                       ELSE 0
        bottom_shift_x == IF top0.rect.width < bottom0.rect.width
                          THEN 0
                          ELSE HalfTrunc(top0.rect.width - bottom0.rect.width)
        offset_y == HalfTrunc(Max(top0.rect.height, bottom0.rect.height))
        top == RenderResult_shift(top0, top_shift_x, -offset_y)
        bottom == RenderResult_shift(bottom0, bottom_shift_x, offset_y)
        width == Max(top.rect.width, bottom.rect.width)
        line == redraw_window_f(
                    RenderValue_Line(x,
                        HalfTrunc(top.rect.y + top.rect.height + bottom.rect.y), width),
                    font)
        rect == RenderRect_combine(bottom.rect, top.rect)
    IN  RenderResult(rect, top.render \o bottom.render \o line.render)

(* One step of the fold of InputValues::render (lines 624-633): the        *)
(* element's layout joins the accumulator, followed by the marker when the *)
(* cursor rests right after the element.                                   *)
InputValues_render_step(acc, render, marked, font) ==
    LET combined == RenderResult_combine(acc, render) IN
    IF marked
    THEN RenderResult_combine(combined, redraw_window_f(new_cursor_rect(render.rect), font))
    ELSE combined

(* The start of the fold (lines 609-614) *)
InputValues_render_start(c, x, y, font) ==
    LET start == RenderResult_empty(RenderRect(x, y, 0, 0)) IN
    IF c # <<>> /\ c[1].index = 0 /\ c[1].follow = None
    THEN RenderResult_combine(start, redraw_window_f(new_cursor(x, y + HalfTrunc(FONT_SIZE)), font))
    ELSE start

(* the follow handed to the element at 1-based position k (lines 618-622) *)
ElementFollow(c, k) == IF c # <<>> /\ c[1].index = k THEN c[1].follow ELSE None

(* the cursor handed to a branch of a fraction (lines 103-113) *)
BranchCursor(c, side) == IF c # None /\ c[1] = side THEN <<c[2]>> ELSE <<>>

(* InputValue::render (lines 91-147) and InputValues::render (601-636).    *)
(* An Option<&ValueCursor> is <<>> for None and <<c>> for Some(c).         *)
RECURSIVE InputValue_render(_, _, _, _, _)
RECURSIVE InputValues_render(_, _, _, _, _)
RECURSIVE InputValues_render_fold(_, _, _, _, _, _)
RECURSIVE InputValues_render_next(_, _, _, _, _, _, _)

InputValue_render(self, c, x, y, font) ==
    IF self.kind = "Value"
    THEN redraw_window_f(RenderValue_Text(x, y, self.text), font)
    ELSE Bind(InputValues_render(self.top, BranchCursor(c, "Top"), x, y, font),
              LAMBDA top :
                  Bind(InputValues_render(self.bottom, BranchCursor(c, "Bottom"), x, y, font),
                       LAMBDA bottom : Fraction_render(top, bottom, x, font)))

(* the accumulator after element k, from the accumulator before it *)
InputValues_render_next(self, c, x, y, font, k, acc) ==
    Bind(InputValue_render(self[k], ElementFollow(c, k), x + acc.rect.width, y, font),
         LAMBDA render :
             InputValues_render_step(acc, render,
                 c # <<>> /\ c[1].index = k /\ c[1].follow = None, font))

(* the accumulator of the fold after the first k elements *)
InputValues_render_fold(self, c, x, y, font, k) ==
    IF k = 0
    THEN InputValues_render_start(c, x, y, font)
    ELSE Bind(InputValues_render_fold(self, c, x, y, font, k - 1),
              LAMBDA acc : InputValues_render_next(self, c, x, y, font, k, acc))

InputValues_render(self, c, x, y, font) ==
    InputValues_render_fold(self, c, x, y, font, Len(self))

(* One step of the fold of ProgramState::render (lines 850-862): the line  *)
(* is laid out at the accumulated height and moved so that its top is      *)
(* there.                                                                  *)
ProgramState_render_step(acc, line, c, font) ==
    LET y == acc.rect.y + acc.rect.height IN
    Bind(InputValues_render(line, c, 0, y, font),
         LAMBDA rendered :
             RenderResult_combine(acc, RenderResult_shift(rendered, 0, y - rendered.rect.y)))

(* ProgramState::render (lines 840-887): the fold over the lines, the      *)
(* centering in the viewport and the two clamping steps.  The result keeps *)
(* the layout after each stage.                                            *)
RECURSIVE ProgramState_render_fold(_, _, _, _)
ProgramState_render_fold(ls, cur, font, k) ==
    IF k = 0
    THEN RenderResult_empty(RenderRect_empty)
    ELSE Bind(ProgramState_render_fold(ls, cur, font, k - 1),
              LAMBDA acc :
                  ProgramState_render_step(acc, ls[k],
                      IF cur.line = k - 1 THEN <<cur.value>> ELSE <<>>, font))

center(size, start, other_size) == start + HalfTrunc(size - other_size)

(* the two clamping steps (lines 875-883) *)
clamp(centered) ==
    LET clamped_y == IF centered.rect.y < 0
                     THEN RenderResult_shift(centered, 0, centered.rect.y)
                     ELSE centered
    IN  IF clamped_y.rect.x < 0
        THEN RenderResult_shift(clamped_y, clamped_y.rect.x, 0)
        ELSE clamped_y

(* the centering step (lines 865-873) *)
centered(folded, width, height) ==
    RenderResult_shift(folded, center(width, folded.rect.x, folded.rect.width),
                               center(height, folded.rect.y, folded.rect.height))

Stages(folded, shifted) == [folded |-> folded, centered |-> shifted, out |-> clamp(shifted)]

ProgramState_render(ls, cur, width, height, font) ==
    Bind(ProgramState_render_fold(ls, cur, font, Len(ls)),
         LAMBDA folded : Stages(folded, centered(folded, width, height)))

(***************************************************************************)
(* The state machine: one action per input event of the main loop          *)
(* (lines 986-1046).  A panic ends the process.                            *)
(***************************************************************************)
NoLayout == [op |-> "none"]

Init ==
    /\ lines = ProgramState_new.lines
    /\ cursor = ProgramState_new.cursor
    /\ panicked = FALSE
    /\ last = "new"
    /\ last_len = 0
    /\ last_cursor = ProgramState_new.cursor
    /\ layout = NoLayout

Apply(r, name) ==
    /\ lines' = r.lines
    /\ cursor' = r.cursor
    /\ panicked' = r.panic
    /\ last' = name
    /\ last_len' = Len(lines)
    /\ last_cursor' = cursor
    /\ layout' = NoLayout

InsertLeaf ==
    /\ ~panicked
    /\ CountLines(lines) < MaxValues
    /\ \E text \in Texts : Apply(ProgramState_add_text(lines, cursor, text), "add_normal")

WrapAsFraction ==
    /\ ~panicked
    /\ CountLines(lines) < MaxValues
    /\ Apply(ProgramState_add_text(lines, cursor, "/"), "add_fraction")

NewLine ==
    /\ ~panicked
    /\ Len(lines) < MaxLines
    /\ Apply(ProgramState_new_line(lines, cursor), "new_line")

DeleteBefore ==
    /\ ~panicked
    /\ \E checked \in BOOLEAN :
           Apply(ProgramState_remove_single(lines, cursor, checked), "remove_single")

DeleteAfter ==
    /\ ~panicked
    /\ \E checked \in BOOLEAN :
           Apply(ProgramState_remove_next_single(lines, cursor, checked), "remove_next_single")

MoveLeft ==
    /\ ~panicked
    /\ Apply(ProgramState_move_left(lines, cursor), "move_left")

MoveRight ==
    /\ ~panicked
    /\ Apply(ProgramState_move_right(lines, cursor), "move_right")

MoveUp ==
    /\ ~panicked
    /\ Apply(ProgramState_move_up(lines, cursor), "move_up")

MoveDown ==
    /\ ~panicked
    /\ Apply(ProgramState_move_down(lines, cursor), "move_down")

Next ==
    \/ InsertLeaf
    \/ WrapAsFraction
    \/ NewLine
    \/ DeleteBefore
    \/ DeleteAfter
    \/ MoveLeft
    \/ MoveRight
    \/ MoveUp
    \/ MoveDown

Spec == Init /\ [][Next]_vars

(***************************************************************************)
(* Vertical movement inside one fraction whose branches hold up to         *)
(* MaxBranch leaves: the state starts with the cursor in either branch of  *)
(* a fraction that stands on the line or inside the top or bottom of an    *)
(* outer fraction, and the arrow keys up and down are pressed.  The index  *)
(* may be one past the end, as a dissolution leaves it (see C1).           *)
(***************************************************************************)
MaxBranch == 4

Leaves(n) == [j \in 1..n |-> Value("1")]

InitVertical ==
    \E a \in 0..MaxBranch, b \in 0..MaxBranch,
       side \in {"Top", "Bottom"}, nest \in {"None", "Top", "Bottom"} :
       LET inner == Fraction(Leaves(a), Leaves(b)) IN
       \E i \in 0..(Len(Branch(inner, side)) + 1) :
          LET at == ValueCursor(1, Some(side, ValueCursor(i, None))) IN
          /\ lines = IF nest = "None" THEN << <<inner>> >>
                     ELSE IF nest = "Top" THEN << <<Fraction(<<inner>>, <<>>)>> >>
                     ELSE << <<Fraction(<<Value("1")>>, <<inner>>)>> >>
          /\ cursor = Cursor(0, IF nest = "None" THEN at ELSE ValueCursor(1, Some(nest, at)))
          /\ panicked = FALSE
          /\ last = "new"
          /\ last_len = 1
          /\ last_cursor = cursor
          /\ layout = NoLayout

NextVertical ==
    \/ MoveUp
    \/ MoveDown

SpecVertical == InitVertical /\ [][NextVertical]_vars

(***************************************************************************)
(* The layout union on its own: the state starts with two layout results   *)
(* whose rectangles have coordinates in -MaxCoord..MaxCoord and sizes in   *)
(* 0..MaxSize, and RenderRect::combine or RenderResult::combine is applied *)
(* to them.                                                                *)
(***************************************************************************)
MaxCoord == 1
MaxSize == 1

Rects ==
    {RenderRect(x, y, w, h) : x \in -MaxCoord..MaxCoord, y \in -MaxCoord..MaxCoord,
                              w \in 0..MaxSize, h \in 0..MaxSize}

(* primitive lists of a result that occupies rect: nothing, a text, a      *)
(* marker, or a text followed by its marker                                *)
Primitives(rect) ==
    LET text == RenderValue_Text(rect.x, rect.y, "1")
        mark == new_cursor_rect(rect)
    IN  {<<>>, <<text>>, <<mark>>, <<text, mark>>}

InitLayout ==
    \E a \in Rects, b \in Rects :
       \E ra \in {<<>>, <<RenderValue_Text(a.x, a.y, "1")>>}, rb \in Primitives(b) :
          /\ layout = [op |-> "input", self |-> RenderResult(a, ra), other |-> RenderResult(b, rb)]
          /\ lines = ProgramState_new.lines
          /\ cursor = ProgramState_new.cursor
          /\ panicked = FALSE
          /\ last = "new"
          /\ last_len = 0
          /\ last_cursor = ProgramState_new.cursor

CombineRects ==
    /\ layout.op = "input"
    /\ layout' = [op |-> "RenderRect_combine", self |-> layout.self, other |-> layout.other,
                  out |-> RenderResult_empty(RenderRect_combine(layout.self.rect, layout.other.rect))]
    /\ UNCHANGED <<lines, cursor, panicked, last, last_len, last_cursor>>

CombineResults ==
    /\ layout.op = "input"
    /\ layout' = [op |-> "RenderResult_combine", self |-> layout.self, other |-> layout.other,
                  out |-> RenderResult_combine(layout.self, layout.other)]
    /\ UNCHANGED <<lines, cursor, panicked, last, last_len, last_cursor>>

NextLayout ==
    \/ CombineRects
    \/ CombineResults

SpecLayout == InitLayout /\ [][NextLayout]_vars

(***************************************************************************)
(* One layout pass: the state starts with a document built from the        *)
(* elements of RenderItems (the lines of RenderLines, one or two           *)
(* lines), a cursor at any position of it, a viewport of up to MaxViewport *)
(* in each direction and a font whose glyphs are up to MaxGlyph wide, and  *)
(* the window is redrawn.                                                  *)
(***************************************************************************)
MaxViewport == 2
MaxGlyph == 2

RenderItems ==
    {Value("1"),
     Fraction(<<Value("1")>>, <<>>),
     Fraction(<<Value("1"), Value("2")>>, <<Fraction(<<>>, <<Value("1")>>)>>)}

(* the empty line, the lines of one element, and the lines of one element  *)
(* with a leaf before or after it                                          *)
RenderLines ==
    {<<>>} \cup {<<v>> : v \in RenderItems}
           \cup {<<Value("2"), v>> : v \in RenderItems}
           \cup {<<v, Value("2")>> : v \in RenderItems}

(* documents of one line or of two *)
RenderDocuments ==
    {<<l>> : l \in RenderLines} \cup {<<l, m>> : l \in RenderLines, m \in RenderLines}

(* the cursors whose every level is a gap of the sequence it refers to and *)
(* whose every follow enters the fraction before the gap                   *)
RECURSIVE Cursors(_)
Cursors(seq) ==
    {ValueCursor(i, None) : i \in 0..Len(seq)}
      \cup UNION {{ValueCursor(i, Some(side, c)) : c \in Cursors(Branch(seq[i], side))} :
                     i \in {j \in 1..Len(seq) : seq[j].kind = "Fraction"},
                     side \in {"Top", "Bottom"}}

(* glyph boxes of a monospace font: w wide, w + 1 high *)
Fonts == {[width |-> w, height |-> w + 1] : w \in 1..MaxGlyph}

InitRender ==
    \E ls \in RenderDocuments, width \in 1..MaxViewport, height \in 1..MaxViewport,
       font \in Fonts :
       \E n \in 0..(Len(ls) - 1) :
          \E c \in Cursors(ls[n + 1]) :
             /\ lines = ls
             /\ cursor = Cursor(n, c)
             /\ panicked = FALSE
             /\ last = "new"
             /\ last_len = Len(ls)
             /\ last_cursor = cursor
             /\ layout = [op |-> "input", width |-> width, height |-> height, font |-> font]

Render ==
    /\ layout.op = "input"
    /\ layout' = [op |-> "render", width |-> layout.width, height |-> layout.height,
                  font |-> layout.font,
                  result |-> ProgramState_render(lines, cursor, layout.width, layout.height,
                                                 layout.font)]
    /\ UNCHANGED <<lines, cursor, panicked, last, last_len, last_cursor>>

NextRender == Render

SpecRender == InitRender /\ [][NextRender]_vars

(***************************************************************************)
(* The editor with its window: the main loop handles an input event or     *)
(* redraws the window (lines 986-1046).  A redraw lays the current         *)
(* document out in a viewport of MaxViewport in each direction with one of *)
(* the fonts; the layout is kept until the next event.                     *)
(***************************************************************************)
Redraw ==
    /\ ~panicked
    /\ layout = NoLayout
    /\ \E font \in Fonts :
           layout' = [op |-> "render", width |-> MaxViewport, height |-> MaxViewport,
                      font |-> font,
                      result |-> ProgramState_render(lines, cursor, MaxViewport, MaxViewport,
                                                     font)]
    /\ UNCHANGED <<lines, cursor, panicked, last, last_len, last_cursor>>

NextRedraw ==
    \/ InsertLeaf
    \/ WrapAsFraction
    \/ NewLine
    \/ DeleteBefore
    \/ DeleteAfter
    \/ MoveLeft
    \/ MoveRight
    \/ MoveUp
    \/ MoveDown
    \/ Redraw

SpecRedraw == Init /\ [][NextRedraw]_vars

(***************************************************************************)
(* Helpers of the properties                                               *)
(***************************************************************************)
(* the cursor's line exists *)
LineExists == InRange(lines, cursor.line)

CurrentLine == lines[cursor.line + 1]

(* the innermost level of a cursor (the one without follow) *)
RECURSIVE Innermost(_)
Innermost(c) == IF c.follow # None THEN Innermost(c.follow[2]) ELSE c

RECURSIVE FollowDepth(_)
FollowDepth(c) == IF c.follow # None THEN 1 + FollowDepth(c.follow[2]) ELSE 0

(* every level of the chain that can be resolved has 0 <= index <= length *)
RECURSIVE IndexInBounds(_, _)
IndexInBounds(seq, c) ==
    /\ c.index >= 0
    /\ c.index <= Len(seq)
    /\ (c.follow # None /\ InRange(seq, c.index - 1) /\ seq[c.index].kind = "Fraction")
           => IndexInBounds(Branch(seq[c.index], c.follow[1]), c.follow[2])

(* every follow of the chain sits right after a Fraction *)
RECURSIVE FollowAfterFraction(_, _)
FollowAfterFraction(seq, c) ==
    c.follow # None =>
        /\ c.index >= 1
        /\ InRange(seq, c.index - 1)
        /\ seq[c.index].kind = "Fraction"
        /\ FollowAfterFraction(Branch(seq[c.index], c.follow[1]), c.follow[2])

(* the follow chain as a flat path of <<index, side>>, innermost last *)
RECURSIVE Chain(_)
Chain(c) ==
    IF c.follow # None
    THEN << <<c.index, c.follow[1]>> >> \o Chain(c.follow[2])
    ELSE << <<c.index, "None">> >>

Ancestors(c) == SubSeq(Chain(c), 1, Len(Chain(c)) - 1)

(* the sequence the innermost level refers to (empty if the chain does not *)
(* resolve)                                                                *)
RECURSIVE SeqAt(_, _)
SeqAt(seq, c) ==
    IF c.follow # None
    THEN IF InRange(seq, c.index - 1) /\ seq[c.index].kind = "Fraction"
         THEN SeqAt(Branch(seq[c.index], c.follow[1]), c.follow[2])
         ELSE <<>>
    ELSE seq

(* the document with the sequence at the end of path c emptied: what is    *)
(* left is every other sequence and line                                   *)
RECURSIVE BlankSeq(_, _)
BlankSeq(seq, c) ==
    IF c.follow # None
    THEN IF InRange(seq, c.index - 1) /\ seq[c.index].kind = "Fraction"
         THEN [seq EXCEPT ![c.index] =
                  SetBranch(@, c.follow[1], BlankSeq(Branch(@, c.follow[1]), c.follow[2]))]
         ELSE seq
    ELSE <<>>

Blank(ls, cur) == [ls EXCEPT ![cur.line + 1] = BlankSeq(@, cur.value)]

(* the cursor with its deepest follow removed: the level that points into  *)
(* the innermost fraction becomes the innermost level                      *)
RECURSIVE Parent(_)
Parent(c) ==
    IF c.follow[2].follow = None
    THEN [c EXCEPT !.follow = None]
    ELSE [c EXCEPT !.follow = Some(c.follow[1], Parent(c.follow[2]))]

(* side of the deepest follow, and the fraction it descends into *)
InnerSide(c) == Chain(c)[Len(Chain(c)) - 1][2]

InnerFraction(seq, c) == SeqAt(seq, Parent(c))[Innermost(Parent(c)).index]

Abs(n) == IF n < 0 THEN -n ELSE n

(* the integer quotient d / 2 truncated toward zero *)
TowardZeroHalf(d) ==
    CHOOSE q \in -Abs(d)..Abs(d) :
        /\ Abs(2 * q) <= Abs(d)
        /\ Abs(d) - Abs(2 * q) <= 1
        /\ (q > 0 => d > 0) /\ (q < 0 => d < 0)

(***************************************************************************)
(* C1: in every reachable state every level of the cursor's follow chain   *)
(* has 0 <= index <= length of the sequence it refers to.                  *)
(* Stated as the claim; the code violates it after a dissolution whose     *)
(* surviving branch is empty.                                              *)
(***************************************************************************)
C1_IndexWithinBounds ==
    (~panicked /\ LineExists) => IndexInBounds(CurrentLine, cursor.value)

(***************************************************************************)
(* C2: in every reachable state, at every level of the follow chain,       *)
(* follow is present only if index >= 1 and the element at index-1 of that *)
(* level's sequence is a Fraction.                                         *)
(***************************************************************************)
C2_FollowOnlyAfterFraction ==
    cursor.value.follow # None =>
        (LineExists /\ FollowAfterFraction(CurrentLine, cursor.value))

(* a deleteBefore has acted (an inner fraction dissolved or an element     *)
(* removed) and the cursor still descends into a fraction                  *)
C2_Witness ==
    /\ last = "remove_single"
    /\ ~panicked
    /\ FollowDepth(cursor.value) >= 1

(***************************************************************************)
(* C3: no sequence of the nine editing operations reaches an internal      *)
(* failure (out-of-range access, insert/remove/split position outside the  *)
(* sequence, a follow resolving to a Leaf, line index underflow).          *)
(* Stated as the claim; the code panics.                                   *)
(***************************************************************************)
C3_NoInternalFailure == ~panicked

(***************************************************************************)
(* C4: deleteBefore at the document start (line 0, index 0, no follow) is  *)
(* a no-op, not an error, whatever the number of lines.                    *)
(* Stated as the claim; the code fails when there are several lines.       *)
(***************************************************************************)
C4_DeleteAtStartIsNoOp ==
    [][(last' = "remove_single" /\ cursor = Cursor(0, ValueCursor_default))
          => (lines' = lines /\ cursor' = cursor /\ ~panicked')]_vars

(***************************************************************************)
(* C5: the document has at least one line in every reachable state.        *)
(***************************************************************************)
C5_AtLeastOneLine == Len(lines) >= 1

(* a deleteBefore at a line start has just removed a line *)
C5_Witness ==
    /\ last = "remove_single"
    /\ ~panicked
    /\ last_len = 2
    /\ Len(lines) = 1

(***************************************************************************)
(* C6: insertLeaf(t) inserts exactly one Leaf(t) at the innermost gap: the *)
(* owning sequence becomes the old one with the leaf inserted at the old   *)
(* index, the innermost index grows by 1, ancestor levels and every other  *)
(* sequence and line are unchanged.                                        *)
(* Stated as the claim; it fails from the out-of-range cursor of C1.       *)
(***************************************************************************)
C6_InsertLeafEffect ==
    [][last' = "add_normal" =>
          /\ ~panicked'
          /\ LET k == Innermost(cursor.value).index
                 owning == SeqAt(CurrentLine, cursor.value)
             IN  /\ \E text \in Texts :
                        SeqAt(lines'[cursor.line + 1], cursor.value)
                            = VecInsert(owning, k, Value(text))
                 /\ Blank(lines', cursor) = Blank(lines, cursor)
                 /\ cursor'.line = cursor.line
                 /\ Chain(cursor'.value) = Ancestors(cursor.value) \o << <<k + 1, "None">> >>
      ]_vars

(***************************************************************************)
(* C7: wrapAsFraction with the innermost index k > 0 keeps the length of   *)
(* the owning sequence, replaces element k-1 (e) by Fraction{[e], []},     *)
(* keeps index k at that level and adds follow (Bottom, {0, None});        *)
(* ancestors and everything else are unchanged.                            *)
(* Stated as the claim; it fails from the out-of-range cursor of C1.       *)
(***************************************************************************)
C7_WrapEffect ==
    [][(last' = "add_fraction" /\ Innermost(cursor.value).index > 0) =>
          /\ ~panicked'
          /\ LET k == Innermost(cursor.value).index
                 owning == SeqAt(CurrentLine, cursor.value)
                 wrapped == SeqAt(lines'[cursor.line + 1], cursor.value)
             IN  /\ k <= Len(owning)
                 /\ Len(wrapped) = Len(owning)
                 /\ wrapped = [owning EXCEPT ![k] = Fraction(<<owning[k]>>, <<>>)]
                 /\ Blank(lines', cursor) = Blank(lines, cursor)
                 /\ cursor'.line = cursor.line
                 /\ Chain(cursor'.value)
                        = Ancestors(cursor.value) \o << <<k, "Bottom">>, <<0, "None">> >>
      ]_vars

(***************************************************************************)
(* C8: wrapAsFraction with the innermost index 0, at any depth, changes    *)
(* neither the document nor the cursor.                                    *)
(***************************************************************************)
C8_WrapAtZeroIsNoOp ==
    [][(last' = "add_fraction" /\ Innermost(cursor.value).index = 0) =>
          (lines' = lines /\ cursor' = cursor /\ ~panicked')]_vars

(* a wrap has acted with the cursor at index 0 of a top sequence: a wrap   *)
(* that creates a fraction always ends in a bottom sequence                *)
C8_Witness ==
    /\ last = "add_fraction"
    /\ ~panicked
    /\ cursor.value.follow # None
    /\ cursor.value.follow[1] = "Top"
    /\ cursor.value.follow[2] = ValueCursor_default

(***************************************************************************)
(* C9: from every reachable state whose innermost index is k >= 1,         *)
(* wrapAsFraction followed at once by deleteBefore gives back the document *)
(* and the cursor (index k at that depth, no follow).                      *)
(* Stated as the claim; it fails from the out-of-range cursor of C1.       *)
(***************************************************************************)
C9_WrapDissolveRoundTrip ==
    (~panicked /\ LineExists /\ Innermost(cursor.value).index >= 1) =>
        LET w == ProgramState_add_text(lines, cursor, "/") IN
        /\ ~w.panic
        /\ \A checked \in BOOLEAN :
               LET d == ProgramState_remove_single(w.lines, w.cursor, checked) IN
               ~d.panic /\ d.lines = lines /\ d.cursor = cursor

(***************************************************************************)
(* C10: if the innermost index k >= 1 and element k-1 is a Leaf, moveLeft  *)
(* then moveRight gives back the cursor; if k < length and element k is a  *)
(* Leaf, moveRight then moveLeft gives back the cursor.                    *)
(***************************************************************************)
C10_HorizontalRoundTrip ==
    (~panicked /\ LineExists) =>
        LET k == Innermost(cursor.value).index
            owning == SeqAt(CurrentLine, cursor.value)
            l == ProgramState_move_left(lines, cursor)
            lr == ProgramState_move_right(l.lines, l.cursor)
            r == ProgramState_move_right(lines, cursor)
            rl == ProgramState_move_left(r.lines, r.cursor)
        IN  /\ (k >= 1 /\ InRange(owning, k - 1) /\ owning[k].kind = "Value")
                   => (~l.panic /\ ~lr.panic /\ lr.cursor = cursor)
            /\ (InRange(owning, k) /\ owning[k + 1].kind = "Value")
                   => (~r.panic /\ ~rl.panic /\ rl.cursor = cursor)

(* a moveRight has just stepped over a leaf inside a fraction, with        *)
(* another leaf ahead: both round trips apply                              *)
C10_Witness ==
    /\ last = "move_right"
    /\ ~panicked
    /\ LineExists
    /\ FollowDepth(cursor.value) >= 1
    /\ LET k == Innermost(cursor.value).index
           owning == SeqAt(CurrentLine, cursor.value)
       IN  /\ k >= 1
           /\ InRange(owning, k)
           /\ owning[k].kind = "Value"
           /\ owning[k + 1].kind = "Value"

(***************************************************************************)
(* C11: whenever moveUp or moveDown flips the innermost follow's side, the *)
(* child index becomes clamp(old - (a-b)/2, 0, b), a the length of the     *)
(* sequence left, b the length of the sequence entered, (a-b)/2 truncated  *)
(* toward zero, and lies in 0..b; with top length 4 and bottom length 2,   *)
(* moveUp from bottom index 1 of a fraction on the line gives top index 2. *)
(***************************************************************************)
C11_VerticalRescale ==
    [][/\ (/\ last' \in {"move_up", "move_down"}
           /\ FollowDepth(cursor.value) >= 1
           /\ FollowDepth(cursor'.value) = FollowDepth(cursor.value)
           /\ InnerSide(cursor'.value) # InnerSide(cursor.value))
          => LET this == InnerFraction(CurrentLine, cursor.value)
                 a == Len(Branch(this, InnerSide(cursor.value)))
                 b == Len(Branch(this, InnerSide(cursor'.value)))
                 old == Innermost(cursor.value).index
                 new == Innermost(cursor'.value).index
                 wanted == old - TowardZeroHalf(a - b)
             IN  /\ new = (IF wanted < 0 THEN 0 ELSE IF wanted > b THEN b ELSE wanted)
                 /\ new >= 0
                 /\ new <= b
       /\ (/\ last' = "move_up"
           /\ Len(CurrentLine) = 1
           /\ CurrentLine[1].kind = "Fraction"
           /\ Len(CurrentLine[1].top) = 4
           /\ Len(CurrentLine[1].bottom) = 2
           /\ cursor.value = ValueCursor(1, Some("Bottom", ValueCursor(1, None))))
          => cursor'.value = ValueCursor(1, Some("Top", ValueCursor(2, None)))
      ]_vars

(* moveUp has just taken the cursor from bottom index 1 to top index 2 of  *)
(* a fraction with four leaves over two                                    *)
C11_Witness ==
    /\ last = "move_up"
    /\ ~panicked
    /\ Len(CurrentLine) = 1
    /\ CurrentLine[1].kind = "Fraction"
    /\ Len(CurrentLine[1].top) = 4
    /\ Len(CurrentLine[1].bottom) = 2
    /\ last_cursor.value = ValueCursor(1, Some("Bottom", ValueCursor(1, None)))
    /\ cursor.value = ValueCursor(1, Some("Top", ValueCursor(2, None)))

(* some leaf of the sequence, at any depth, holds the text *)
RECURSIVE HasLeaf(_, _)
HasLeaf(seq, text) ==
    \E j \in 1..Len(seq) :
        IF seq[j].kind = "Value"
        THEN seq[j].text = text
        ELSE HasLeaf(seq[j].top, text) \/ HasLeaf(seq[j].bottom, text)

(***************************************************************************)
(* C12: from the initial state the inputs "1", "/", "2" give the single    *)
(* line [Fraction{top: [Leaf "1"], bottom: [Leaf "2"]}] with the cursor at *)
(* line 0, {1, (Bottom, {1, None})}; "/" is routed to the wrap and is      *)
(* never stored as a leaf.                                                 *)
(***************************************************************************)
C12_EndToEnd ==
    /\ \A j \in 1..Len(lines) : ~HasLeaf(lines[j], "/")
    /\ (~panicked /\ lines = ProgramState_new.lines /\ cursor = ProgramState_new.cursor) =>
           LET one == ProgramState_add_text(lines, cursor, "1")
               slash == ProgramState_add_text(one.lines, one.cursor, "/")
               two == ProgramState_add_text(slash.lines, slash.cursor, "2")
           IN  /\ ~one.panic /\ ~slash.panic /\ ~two.panic
               /\ two.lines = << <<Fraction(<<Value("1")>>, <<Value("2")>>)>> >>
               /\ two.cursor = Cursor(0, ValueCursor(1, Some("Bottom", ValueCursor(1, None))))

(* the end of the scenario: "2" has just been typed into the empty bottom *)
C12_Witness ==
    /\ last = "add_normal"
    /\ ~panicked
    /\ lines = << <<Fraction(<<Value("1")>>, <<Value("2")>>)>> >>
    /\ last_cursor = Cursor(0, ValueCursor(1, Some("Bottom", ValueCursor(0, None))))
    /\ cursor = Cursor(0, ValueCursor(1, Some("Bottom", ValueCursor(1, None))))

(***************************************************************************)
(* C13: newLine with no follow at index i of line n splits the line at i:  *)
(* line n keeps elements 0..i-1, a new line n+1 receives elements i..end,  *)
(* order is kept, the other lines keep content and relative position, the  *)
(* line count grows by 1 and the cursor becomes line n+1, {0, None}.       *)
(* Stated as the claim; it fails from the out-of-range cursor of C1.       *)
(***************************************************************************)
C13_NewLineSplits ==
    [][(last' = "new_line" /\ cursor.value.follow = None) =>
          /\ ~panicked'
          /\ LET n == cursor.line
                 i == cursor.value.index
                 line == lines[n + 1]
             IN  /\ Len(lines') = Len(lines) + 1
                 /\ lines'[n + 1] = SubSeq(line, 1, i)
                 /\ lines'[n + 2] = SubSeq(line, i + 1, Len(line))
                 /\ lines'[n + 1] \o lines'[n + 2] = line
                 /\ \A j \in 1..n : lines'[j] = lines[j]
                 /\ \A j \in (n + 2)..Len(lines) : lines'[j + 1] = lines[j]
                 /\ cursor' = Cursor(n + 1, ValueCursor_default)
      ]_vars

(* the sides of the follow chain, outermost first *)
Sides(c) == [j \in 1..FollowDepth(c) |-> Chain(c)[j][2]]

(***************************************************************************)
(* C16: at any nesting depth moveUp flips the innermost follow's side from *)
(* Bottom to Top and moveDown from Top to Bottom; moveUp never turns a     *)
(* side from Top to Bottom, moveDown never from Bottom to Top, and the     *)
(* sides of the outer follows are unchanged.                               *)
(* Stated as the claim; the code fails two fractions deep.                 *)
(***************************************************************************)
C16_VerticalDirection ==
    [][(last' \in {"move_up", "move_down"} /\ FollowDepth(cursor.value) >= 1) =>
          LET depth == FollowDepth(cursor.value)
              from == IF last' = "move_up" THEN "Bottom" ELSE "Top"
          IN  /\ ~panicked'
              /\ Sides(cursor.value)[depth] = from
                     => Sides(cursor'.value)[depth] = opposite(from)
              /\ \A j \in 1..depth :
                     ~(Sides(cursor.value)[j] = opposite(from) /\ Sides(cursor'.value)[j] = from)
              /\ \A j \in 1..(depth - 1) : Sides(cursor'.value)[j] = Sides(cursor.value)[j]
      ]_vars

(***************************************************************************)
(* C17: deleteBefore with the innermost level at index 0 inside side S of  *)
(* a fraction F replaces F, in the sequence that contains it, by the       *)
(* elements of F's other branch in their order at F's position, discards   *)
(* branch S, clears the follow of the level that pointed into F, keeps     *)
(* that level's index and every outer level, dissolves nothing else and    *)
(* merges no line.                                                         *)
(***************************************************************************)
C17_Dissolution ==
    [][(/\ last' = "remove_single"
        /\ FollowDepth(cursor.value) >= 1
        /\ Innermost(cursor.value).index = 0) =>
          LET up == Parent(cursor.value)
              containing == SeqAt(CurrentLine, up)
              k == Innermost(up).index
              this == containing[k]
              other == Branch(this, opposite(InnerSide(cursor.value)))
          IN  /\ ~panicked'
              /\ Len(lines') = Len(lines)
              /\ cursor'.line = cursor.line
              /\ SeqAt(lines'[cursor.line + 1], up)
                     = SubSeq(containing, 1, k - 1) \o other
                           \o SubSeq(containing, k + 1, Len(containing))
              /\ Blank(lines', Cursor(cursor.line, up)) = Blank(lines, Cursor(cursor.line, up))
              /\ Chain(cursor'.value) = Chain(up)
      ]_vars

(* a deleteBefore at index 0 of a branch has just spliced a surviving      *)
(* branch of two different elements into the line                          *)
C17_Witness ==
    /\ last = "remove_single"
    /\ ~panicked
    /\ FollowDepth(last_cursor.value) = 1
    /\ Innermost(last_cursor.value).index = 0
    /\ cursor.value.follow = None
    /\ Len(CurrentLine) = 2
    /\ CurrentLine[1] # CurrentLine[2]

(***************************************************************************)
(* C18: moveRight at the end of the outermost sequence (no follow, index   *)
(* = length) of a line that is not the last moves the cursor to the next   *)
(* line; moveLeft at index 0 (no follow) of a line that is not the first   *)
(* moves it to the previous line.                                          *)
(* Stated as the claim; the code never changes line on a horizontal move.  *)
(***************************************************************************)
C18_HorizontalCrossesLines ==
    [][/\ (/\ last' = "move_right"
           /\ cursor.value.follow = None
           /\ cursor.value.index = Len(CurrentLine)
           /\ cursor.line < Len(lines) - 1)
          => (~panicked' /\ cursor'.line = cursor.line + 1)
       /\ (/\ last' = "move_left"
           /\ cursor.value.follow = None
           /\ cursor.value.index = 0
           /\ cursor.line > 0)
          => (~panicked' /\ cursor'.line = cursor.line - 1)
      ]_vars

(* the cursor is at outermost depth at the end of an existing line *)
AtEndOfLine ==
    /\ LineExists
    /\ cursor.value.follow = None
    /\ cursor.value.index = Len(CurrentLine)

(***************************************************************************)
(* C19: deleteAfter with no follow and index = length of the current line  *)
(* removes the next line, if there is one, and appends its elements in     *)
(* order to the current line: the line count drops by 1 and the cursor is  *)
(* unchanged; with no next line nothing changes.  In every other cursor    *)
(* position deleteAfter yields the state of moveRight followed by          *)
(* deleteBefore.                                                           *)
(***************************************************************************)
C19_DeleteAfter ==
    [][last' = "remove_next_single" =>
          /\ (AtEndOfLine /\ cursor.line < Len(lines) - 1) =>
                 LET n == cursor.line IN
                 /\ ~panicked'
                 /\ Len(lines') = Len(lines) - 1
                 /\ lines'[n + 1] = lines[n + 1] \o lines[n + 2]
                 /\ \A j \in 1..n : lines'[j] = lines[j]
                 /\ \A j \in (n + 3)..Len(lines) : lines'[j - 1] = lines[j]
                 /\ cursor' = cursor
          /\ (AtEndOfLine /\ ~(cursor.line < Len(lines) - 1)) =>
                 (~panicked' /\ lines' = lines /\ cursor' = cursor)
          /\ ~AtEndOfLine =>
                 \E checked \in BOOLEAN :
                     LET m == ProgramState_move_right(lines, cursor)
                         r == IF m.panic
                              THEN m
                              ELSE ProgramState_remove_single(m.lines, m.cursor, checked)
                     IN  /\ panicked' = r.panic
                         /\ lines' = r.lines
                         /\ cursor' = r.cursor
      ]_vars

(* a deleteAfter at the end of a line has just joined two lines with       *)
(* different content, and the cursor has not moved                         *)
C19_Witness ==
    /\ last = "remove_next_single"
    /\ ~panicked
    /\ last_len = 2
    /\ Len(lines) = 1
    /\ cursor = last_cursor
    /\ cursor.value.follow = None
    /\ cursor.value.index = 1
    /\ Len(lines[1]) = 2
    /\ lines[1][1] # lines[1][2]

(***************************************************************************)
(* C20: moveRight from a gap whose next element at the innermost level is  *)
(* a Fraction ends in that fraction's top at index 0, with the level's     *)
(* index advanced past the fraction; moveLeft from the gap right after a   *)
(* Fraction ends in that fraction's top at index = length of the top,      *)
(* with the level's index unchanged; a horizontal move never creates a     *)
(* follow into a bottom sequence.                                          *)
(***************************************************************************)
C20_StepInPrecedence ==
    [][(/\ last' \in {"move_left", "move_right"}
        /\ LineExists
        /\ FollowAfterFraction(CurrentLine, cursor.value)) =>
          LET c == cursor.value
              seq == SeqAt(CurrentLine, c)
              i == Innermost(c).index
          IN  /\ (last' = "move_right" /\ i < Len(seq) /\ seq[i + 1].kind = "Fraction") =>
                     /\ ~panicked'
                     /\ Chain(cursor'.value)
                            = Ancestors(c) \o << <<i + 1, "Top">>, <<0, "None">> >>
              /\ (last' = "move_left" /\ i >= 1 /\ i <= Len(seq) /\ seq[i].kind = "Fraction") =>
                     /\ ~panicked'
                     /\ Chain(cursor'.value)
                            = Ancestors(c) \o << <<i, "Top">>, <<Len(seq[i].top), "None">> >>
              /\ \A j \in 1..FollowDepth(cursor'.value) :
                     Sides(cursor'.value)[j] = "Bottom" =>
                         (j <= FollowDepth(c) /\ Chain(cursor'.value)[j] = Chain(c)[j])
      ]_vars

(* a moveLeft has just stepped into a non-empty top from the gap after the *)
(* fraction: one more follow, innermost index = length of the top          *)
C20_Witness ==
    /\ last = "move_left"
    /\ ~panicked
    /\ FollowDepth(cursor.value) = FollowDepth(last_cursor.value) + 1
    /\ Innermost(cursor.value).index >= 1
    /\ Innermost(cursor.value).index = Len(SeqAt(CurrentLine, cursor.value))
    /\ InnerSide(cursor.value) = "Top"

(* rectangle outer contains rectangle inner entirely *)
Contains(outer, inner) ==
    /\ outer.x <= inner.x
    /\ outer.y <= inner.y
    /\ outer.x + outer.width >= inner.x + inner.width
    /\ outer.y + outer.height >= inner.y + inner.height

(* a result whose primitive list is a single cursor marker *)
CursorOnly(result) == Len(result.render) = 1 /\ result.render[1].kind = "Cursor"

(***************************************************************************)
(* C14: the rectangle RenderRect::combine returns for two rectangles       *)
(* contains both of them entirely; combining a layout with a cursor-only   *)
(* layout leaves the rectangle's x, y, width and height unchanged and      *)
(* still appends the marker primitive.                                     *)
(***************************************************************************)
C14_LayoutUnion ==
    /\ layout.op = "RenderRect_combine" =>
           /\ Contains(layout.out.rect, layout.self.rect)
           /\ Contains(layout.out.rect, layout.other.rect)
           /\ layout.out.rect.width >= 0
           /\ layout.out.rect.height >= 0
    /\ (layout.op = "RenderResult_combine" /\ CursorOnly(layout.other)) =>
           /\ layout.out.rect = layout.self.rect
           /\ layout.out.render = layout.self.render \o layout.other.render
    /\ (layout.op = "RenderResult_combine" /\ ~CursorOnly(layout.other)) =>
           /\ Contains(layout.out.rect, layout.self.rect)
           /\ Contains(layout.out.rect, layout.other.rect)

(* a cursor-only layout whose rectangle lies outside the first layout's    *)
(* rectangle has been combined into it                                     *)
C14_Witness ==
    /\ layout.op = "RenderResult_combine"
    /\ CursorOnly(layout.other)
    /\ layout.self.render # <<>>
    /\ ~Contains(layout.self.rect, layout.other.rect)
    /\ Len(layout.out.render) = 2

(***************************************************************************)
(* C15: after the document's rectangle is centered in the viewport, a      *)
(* negative top-left x (respectively y) is brought to exactly 0 by         *)
(* shifting the rectangle and every primitive, and a non-negative one is   *)
(* left as centered; so no render ends with a negative top-left x or y.    *)
(* Stated as the claim; the clamp of the code adds the negative coordinate *)
(* once more.                                                              *)
(***************************************************************************)
C15_RenderClamp ==
    layout.op = "render" =>
        LET placed == layout.result.centered
            out == layout.result.out
            shift_x == IF placed.rect.x < 0 THEN -placed.rect.x ELSE 0
            shift_y == IF placed.rect.y < 0 THEN -placed.rect.y ELSE 0
        IN  /\ out = RenderResult_shift(placed, shift_x, shift_y)
            /\ out.rect.x >= 0
            /\ out.rect.y >= 0

(* the number of cursor markers in a list of primitives *)
Markers(render) == Cardinality({j \in 1..Len(render) : render[j].kind = "Cursor"})

(* the markers the layout of sequence seq emits when it is handed cursor c *)
(* (<<>> for no cursor)                                                    *)
MarkersOf(seq, c, font) == Markers(InputValues_render(seq, c, 0, 0, font).render)

(***************************************************************************)
(* C21: for every reachable document and cursor, one layout pass emits     *)
(* exactly one cursor marker; it is produced at the innermost cursor level *)
(* in the sequence that level refers to, no level that has a follow emits  *)
(* one and no line other than the cursor's line emits one.                 *)
(* Stated as the claim; it fails from the out-of-range cursor of C1.       *)
(***************************************************************************)
C21_OneCursorMark ==
    layout.op = "render" =>
        /\ Markers(layout.result.out.render) = 1
        /\ LineExists
        /\ MarkersOf(SeqAt(CurrentLine, cursor.value), <<Innermost(cursor.value)>>,
                     layout.font) = 1
        /\ MarkersOf(CurrentLine, <<cursor.value>>, layout.font) = 1
        /\ \A j \in 1..Len(lines) : MarkersOf(lines[j], <<>>, layout.font) = 0

(***************************************************************************)
(* C22: from every reachable state whose cursor has no follow, newLine     *)
(* immediately followed by deleteBefore restores the original list of      *)
(* lines and the original cursor.                                          *)
(* Stated as the claim; it fails from the out-of-range cursor of C1.       *)
(***************************************************************************)
C22_SplitMergeRoundTrip ==
    (~panicked /\ cursor.value.follow = None) =>
        \A checked \in BOOLEAN :
            LET split == ProgramState_new_line(lines, cursor)
                merged == ProgramState_remove_single(split.lines, split.cursor, checked)
            IN  /\ ~split.panic
                /\ ~merged.panic
                /\ merged.lines = lines
                /\ merged.cursor = cursor

(***************************************************************************)
(* C23: in every reachable state the cursor's line is a valid index into   *)
(* the document: 0 <= cursor.line < number of lines.                       *)
(***************************************************************************)
C23_LineWithinDocument ==
    /\ cursor.line >= 0
    /\ cursor.line < Len(lines)

(* the cursor keys *)
Movements == {"move_left", "move_right", "move_up", "move_down"}

(***************************************************************************)
(* C24: moveLeft, moveRight, moveUp and moveDown leave the document        *)
(* unchanged in every state: the list of lines and every element of every  *)
(* nested sequence are the same before and after; only the cursor may      *)
(* change.                                                                 *)
(***************************************************************************)
C24_MovementNeverEdits ==
    [][last' \in Movements => lines' = lines]_vars

(* a moveLeft has just moved the cursor into a fraction with a non-empty   *)
(* top                                                                     *)
C24_Witness ==
    /\ last = "move_left"
    /\ ~panicked
    /\ cursor # last_cursor
    /\ LineExists
    /\ \E j \in 1..Len(CurrentLine) :
           /\ CurrentLine[j].kind = "Fraction"
           /\ CurrentLine[j].top # <<>>
    /\ FollowDepth(cursor.value) = 1

====
